---- MODULE Spec2Model ----
(***************************************************************************)
(* State-machine model of the finance tracker in src/app.py: the user      *)
(* table, the transaction ledger, the signed session cookies in            *)
(* circulation, and the route handlers and the init-db command, one step   *)
(* per database statement where a handler issues more than one.            *)
(***************************************************************************)
EXTENDS Integers, Sequences, FiniteSets, TLC

\* tables     the tables that exist in the database, of those db.create_all()
\*            makes (the one of User, the one of Transaction)
\* users      the User table, rows [id, username, password_hash]
\* ledger     the Transaction table, rows in insertion order
\* issued     the session cookies the server has signed at a login; the app
\*            keeps no session store, so they live with the clients only
\* dash       the dashboard request in progress: which query it has run and
\*            the totals it has read so far
\* runs       the init-db runs in progress: how many are about to issue
\*            each of the command's database statements
\* last       the latest step: its request (or CLI run) and its response
VARIABLES tables, users, ledger, issued, dash, runs, last

vars == <<tables, users, ledger, issued, dash, runs, last>>

\* ------------------------------------------------------------------ bounds
MaxLedger == 2
MaxInProgress == 2

\* --------------------------------------------------------- program constants
RecentLimit == 10

\* ------------------------------------------------------------- text parsing
\* A text is a sequence of characters.  A character is a one-character
\* string; "Nd0" .. "Nd9" stand for the decimal digits outside ASCII
\* (full-width, Arabic-Indic, ...) of that value.
AsciiDigits == {"0", "1", "2", "3", "4", "5", "6", "7", "8", "9"}

OtherDigits == {"Nd0", "Nd1", "Nd2", "Nd3", "Nd4", "Nd5", "Nd6", "Nd7", "Nd8", "Nd9"}

\* What \d matches and what int() / float() read as a digit.
Digits == AsciiDigits \cup OtherDigits

DigitVal(c) ==
    CASE c \in {"0", "Nd0"} -> 0 [] c \in {"1", "Nd1"} -> 1 [] c \in {"2", "Nd2"} -> 2
      [] c \in {"3", "Nd3"} -> 3 [] c \in {"4", "Nd4"} -> 4 [] c \in {"5", "Nd5"} -> 5
      [] c \in {"6", "Nd6"} -> 6 [] c \in {"7", "Nd7"} -> 7 [] c \in {"8", "Nd8"} -> 8
      [] c \in {"9", "Nd9"} -> 9

AllDigits(s) == \A i \in 1..Len(s) : s[i] \in Digits

RECURSIVE DecimalValue(_)
DecimalValue(s) ==
    IF Len(s) = 0 THEN 0
    ELSE 10 * DecimalValue(SubSeq(s, 1, Len(s) - 1)) + DigitVal(s[Len(s)])

\* Positions of the character c in the text s.
Positions(s, c) == {i \in 1..Len(s) : s[i] = c}

IsLeap(y) == (y % 4 = 0 /\ y % 100 # 0) \/ y % 400 = 0

DaysInMonth(y, m) ==
    IF m = 2 THEN (IF IsLeap(y) THEN 29 ELSE 28)
    ELSE IF m \in {4, 6, 9, 11} THEN 30 ELSE 31

\* %m of strptime: 1[0-2] | 0[1-9] | [1-9]
MonthField(s) ==
    \/ Len(s) = 2 /\ s[1] = "1" /\ s[2] \in {"0", "1", "2"}
    \/ Len(s) = 2 /\ s[1] = "0" /\ s[2] \in AsciiDigits \ {"0"}
    \/ Len(s) = 1 /\ s[1] \in AsciiDigits \ {"0"}

\* %d of strptime: 3[0-1] | [1-2]\d | 0[1-9] | [1-9] | ' '[1-9]
DayField(s) ==
    \/ Len(s) = 2 /\ s[1] = "3" /\ s[2] \in {"0", "1"}
    \/ Len(s) = 2 /\ s[1] \in {"1", "2"} /\ s[2] \in Digits
    \/ Len(s) = 2 /\ s[1] = "0" /\ s[2] \in AsciiDigits \ {"0"}
    \/ Len(s) = 1 /\ s[1] \in AsciiDigits \ {"0"}
    \/ Len(s) = 2 /\ s[1] = " " /\ s[2] \in AsciiDigits \ {"0"}

\* datetime.strptime(text, '%Y-%m-%d').date(): \d\d\d\d for the year, the
\* month and day fields above, separated by '-', and nothing else; the
\* year, month and day must name a calendar date.  ok = FALSE is ValueError.
strptime(s) ==
    LET dashes == Positions(s, "-")
        p1 == CHOOSE i \in dashes : \A j \in dashes : i <= j
        p2 == CHOOSE i \in dashes : \A j \in dashes : j <= i
        ys == SubSeq(s, 1, p1 - 1)
        ms == SubSeq(s, p1 + 1, p2 - 1)
        ds == SubSeq(s, p2 + 1, Len(s))
        y  == DecimalValue(ys)
        m  == DecimalValue(ms)
        d  == IF ds[1] = " " THEN DigitVal(ds[2]) ELSE DecimalValue(ds)
        bad == [ok |-> FALSE, value |-> [y |-> 0, m |-> 0, d |-> 0]]
    IN  IF Cardinality(dashes) # 2 THEN bad
        ELSE IF ~(Len(ys) = 4 /\ AllDigits(ys)) THEN bad
        ELSE IF ~MonthField(ms) THEN bad
        ELSE IF ~DayField(ds) THEN bad
        ELSE IF ~(y >= 1 /\ d <= DaysInMonth(y, m)) THEN bad
        ELSE [ok |-> TRUE, value |-> [y |-> y, m |-> m, d |-> d]]

\* ------------------------------------------------------------------- floats
\* Python's float and the database's float column are IEEE 754 doubles.  A
\* double is kept here by its exact value: s * m * 2^e for a finite one,
\* with s the sign (1 or -1), m an odd natural number below 2^53 and
\* -1074 <= e (m = 0 and e = 0 for the two zeros); an infinity of sign s;
\* or nan.  Natural numbers of any size are sequences of 15-bit limbs, the
\* least significant first and the last not zero; <<>> is 0.
LimbBits == 15

LimbBase == 32768

Max(a, b) == IF a > b THEN a ELSE b

Min(a, b) == IF a < b THEN a ELSE b

RECURSIVE Pow2(_)
Pow2(n) == IF n = 0 THEN 1 ELSE 2 * Pow2(n - 1)

\* a without the zero limbs at its high end.
NatTrim(a) ==
    SubSeq(a, 1, Len(a) - Cardinality({i \in 1..Len(a) : \A j \in i..Len(a) : a[j] = 0}))

\* The limbs lo..hi of the numbers v (each within 30 bits, of either sign)
\* once the carry k has gone in at lo and each limb has passed its carry
\* up: the limbs s and the carry c out of hi.
RECURSIVE CarryRange(_, _, _, _)
CarryRange(v, lo, hi, k) ==
    IF lo = hi
    THEN [s |-> <<(v[lo] + k) % LimbBase>>, c |-> (v[lo] + k) \div LimbBase]
    ELSE LET low  == CarryRange(v, lo, (lo + hi) \div 2, k)
             high == CarryRange(v, (lo + hi) \div 2 + 1, hi, low.c)
         IN  [s |-> low.s \o high.s, c |-> high.c]

\* The natural number sum of v[i] * LimbBase^(i-1), plus k.
Normalize(v, k) ==
    IF v = <<>> THEN NatTrim(<<k>>)
    ELSE NatTrim(CarryRange(v, 1, Len(v), k).s \o <<CarryRange(v, 1, Len(v), k).c>>)

\* a * c + k, for 0 <= c < LimbBase and 0 <= k < LimbBase
NatMulAdd(a, c, k) ==
    IF a = <<>> THEN NatTrim(<<k>>) ELSE Normalize([i \in 1..Len(a) |-> a[i] * c], k)

\* a + b
NatAdd(a, b) ==
    IF a = <<>> THEN b
    ELSE IF b = <<>> THEN a
    ELSE Normalize([i \in 1..Max(Len(a), Len(b)) |->
                      (IF i <= Len(a) THEN a[i] ELSE 0) + (IF i <= Len(b) THEN b[i] ELSE 0)], 0)

\* a - b, for a >= b
NatSub(a, b) ==
    IF b = <<>> THEN a
    ELSE Normalize([i \in 1..Len(a) |-> a[i] - (IF i <= Len(b) THEN b[i] ELSE 0)], 0)

\* a * LimbBase^n
LimbShift(a, n) == IF a = <<>> THEN a ELSE [i \in 1..n |-> 0] \o a

\* (the limbs lo..hi of a, as a number) * b
RECURSIVE NatMulRange(_, _, _, _)
NatMulRange(a, b, lo, hi) ==
    IF lo = hi THEN NatMulAdd(b, a[lo], 0)
    ELSE NatAdd(NatMulRange(a, b, lo, (lo + hi) \div 2),
                LimbShift(NatMulRange(a, b, (lo + hi) \div 2 + 1, hi),
                          (lo + hi) \div 2 + 1 - lo))

\* a * b
NatMul(a, b) == IF a = <<>> \/ b = <<>> THEN <<>> ELSE NatMulRange(a, b, 1, Len(a))

\* -1, 0 or 1 as a < b, a = b or a > b: by the lengths, then by the highest
\* limb in which they differ.
NatCmpLimbs(a, b, i) ==
    IF i = 0 THEN 0 ELSE IF a[i] < b[i] THEN 0 - 1 ELSE 1

NatCmp(a, b) ==
    IF Len(a) < Len(b) THEN 0 - 1
    ELSE IF Len(a) > Len(b) THEN 1
    ELSE NatCmpLimbs(a, b,
            Len(a) - Cardinality({i \in 1..Len(a) : \A j \in i..Len(a) : a[j] = b[j]}))

RECURSIVE SmallBitLen(_)
SmallBitLen(x) == IF x = 0 THEN 0 ELSE 1 + SmallBitLen(x \div 2)

\* The number of bits of a: 0 for 0, else floor(log2 a) + 1.
BitLen(a) == IF a = <<>> THEN 0 ELSE LimbBits * (Len(a) - 1) + SmallBitLen(a[Len(a)])

\* Bit i of a (bit 0 is the lowest).
Bit(a, i) ==
    IF i \div LimbBits + 1 > Len(a) THEN 0
    ELSE (a[i \div LimbBits + 1] \div Pow2(i % LimbBits)) % 2

\* a * 2^n
ShiftLeft(a, n) ==
    IF a = <<>> THEN a ELSE LimbShift(NatMulAdd(a, Pow2(n % LimbBits), 0), n \div LimbBits)

\* floor(a / 2^n)
ShiftRight(a, n) ==
    NatTrim([i \in 1..Max(0, Len(a) - n \div LimbBits) |->
               a[i + n \div LimbBits] \div Pow2(n % LimbBits)
               + ((IF i + n \div LimbBits < Len(a) THEN a[i + n \div LimbBits + 1] ELSE 0)
                    % Pow2(n % LimbBits)) * Pow2(LimbBits - (n % LimbBits))])

\* The bits of a below bit n are all 0.
LowBitsZero(a, n) == \A i \in 0..(n - 1) : Bit(a, i) = 0

RECURSIVE SmallTrailingZeros(_)
SmallTrailingZeros(x) == IF x % 2 = 1 THEN 0 ELSE 1 + SmallTrailingZeros(x \div 2)

\* The number of zero limbs at the low end of a.
LowZeroLimbs(a) == Cardinality({i \in 1..Len(a) : \A j \in 1..i : a[j] = 0})

\* The number of zero bits below the lowest 1 bit of a # 0.
TrailingZeros(a) == LimbBits * LowZeroLimbs(a) + SmallTrailingZeros(a[LowZeroLimbs(a) + 1])

\* One step of the long division of n by d: bit i of n is brought down to
\* the remainder st.r, and the quotient st.q gets its next bit.
NatDivStep(n, d, st, i) ==
    IF NatCmp(NatMulAdd(st.r, 2, Bit(n, i)), d) >= 0
    THEN [q |-> NatMulAdd(st.q, 2, 1), r |-> NatSub(NatMulAdd(st.r, 2, Bit(n, i)), d)]
    ELSE [q |-> NatMulAdd(st.q, 2, 0), r |-> NatMulAdd(st.r, 2, Bit(n, i))]

\* The steps for the bits hi down to lo of n: those for the upper half of
\* the bits, then those for the lower half from where the upper ones end.
RECURSIVE NatDivRange(_, _, _, _, _)
NatDivRange(n, d, st, hi, lo) ==
    IF hi = lo THEN NatDivStep(n, d, st, hi)
    ELSE CHOOSE end \in {NatDivRange(n, d, upper, (hi + lo) \div 2, lo) :
                            upper \in {NatDivRange(n, d, st, hi, (hi + lo) \div 2 + 1)}} : TRUE

\* Quotient q and remainder r of n by d, for BitLen(n) >= BitLen(d) > 0: the
\* bits of n above the lowest BitLen(n) - BitLen(d) + 1 are less than d.
NatDivMod(n, d) ==
    NatDivRange(n, d, [q |-> <<>>, r |-> ShiftRight(n, BitLen(n) - BitLen(d) + 1)],
                BitLen(n) - BitLen(d), 0)

FinFloat(s, m, e) == [k |-> "fin", s |-> s, m |-> m, e |-> e]

\* 0.0 and -0.0
SignedZero(s) == FinFloat(s, <<>>, 0)

Zero == SignedZero(1)

NaN == [k |-> "nan", s |-> 1, m |-> <<>>, e |-> 0]

Infinity(s) == [k |-> "inf", s |-> s, m |-> <<>>, e |-> 0]

IsZero(a) == a.k = "fin" /\ a.m = <<>>

\* The double s * q * 2^t, for q below 2^53 or a power of two: an infinity
\* from 2^1024 on.
Exact(s, q, t) ==
    IF q = <<>> THEN SignedZero(s)
    ELSE IF BitLen(q) + t > 1024 THEN Infinity(s)
    ELSE FinFloat(s, ShiftRight(q, TrailingZeros(q)), t + TrailingZeros(q))

\* n with its sh lowest bits rounded away to nearest, ties to even; sticky
\* tells of a non-zero part below bit 0 of n.
RoundShift(n, sh, sticky) ==
    IF Bit(n, sh - 1) = 1 /\ (sticky \/ ~LowBitsZero(n, sh - 1) \/ Bit(n, sh) = 1)
    THEN NatAdd(ShiftRight(n, sh), <<1>>)
    ELSE ShiftRight(n, sh)

\* The double nearest to s * (n + f) * 2^e, where 0 <= f < 1 and f > 0
\* exactly when sticky (and then n has 55 bits or more): 53 bits are kept,
\* fewer below 2^-1022 (the last place is never below 2^-1074), ties go to
\* the even neighbour.
RoundToDouble(s, n, e, sticky) ==
    IF Max(e + BitLen(n) - 53, 0 - 1074) <= e THEN Exact(s, n, e)
    ELSE Exact(s, RoundShift(n, Max(e + BitLen(n) - 53, 0 - 1074) - e, sticky),
               Max(e + BitLen(n) - 53, 0 - 1074))

FloatNeg(a) == IF a.k = "nan" THEN a ELSE [a EXCEPT !.s = 0 - a.s]

\* The sum of the finite doubles a and b, neither of them zero, from their
\* mantissas am and bm scaled to the exponent e.
FiniteSum(a, b, am, bm, e) ==
    IF a.s = b.s THEN RoundToDouble(a.s, NatAdd(am, bm), e, FALSE)
    ELSE IF NatCmp(am, bm) = 0 THEN Zero
    ELSE IF NatCmp(am, bm) > 0 THEN RoundToDouble(a.s, NatSub(am, bm), e, FALSE)
    ELSE RoundToDouble(b.s, NatSub(bm, am), e, FALSE)

\* a + b
FloatAdd(a, b) ==
    IF a.k = "nan" \/ b.k = "nan" THEN NaN
    ELSE IF a.k = "inf" /\ b.k = "inf" THEN (IF a.s = b.s THEN a ELSE NaN)
    ELSE IF a.k = "inf" THEN a
    ELSE IF b.k = "inf" THEN b
    ELSE IF IsZero(a) /\ IsZero(b) THEN (IF a.s = b.s THEN a ELSE Zero)
    ELSE IF IsZero(a) THEN b
    ELSE IF IsZero(b) THEN a
    ELSE FiniteSum(a, b, ShiftLeft(a.m, a.e - Min(a.e, b.e)),
                   ShiftLeft(b.m, b.e - Min(a.e, b.e)), Min(a.e, b.e))

\* a - b
FloatSub(a, b) == FloatAdd(a, FloatNeg(b))

\* a <= 0 (False for nan)
FloatLeZero(a) == a.k # "nan" /\ (IsZero(a) \/ a.s = 0 - 1)

\* "Ws" stands for the whitespace characters that have no escape here
\* (vertical tab, the separators outside ASCII).
Whitespace == {" ", "\t", "\n", "\r", "\f", "Ws"}

\* str.strip(): s without the whitespace at its two ends.
Strip(s) ==
    SubSeq(s, 1 + Cardinality({i \in 1..Len(s) : \A j \in 1..i : s[j] \in Whitespace}),
           Len(s) - Cardinality({i \in 1..Len(s) : \A j \in i..Len(s) : s[j] \in Whitespace}))

LowerChar(c) ==
    CASE c = "A" -> "a" [] c = "E" -> "e" [] c = "F" -> "f" [] c = "I" -> "i"
      [] c = "N" -> "n" [] c = "T" -> "t" [] c = "Y" -> "y" [] OTHER -> c

Lower(s) == [i \in 1..Len(s) |-> LowerChar(s[i])]

\* Digits with single underscores between them.
DigitGroup(g) ==
    /\ Len(g) > 0
    /\ g[1] \in Digits /\ g[Len(g)] \in Digits
    /\ \A i \in 1..Len(g) : g[i] \in Digits \cup {"_"}
    /\ \A i \in 1..(Len(g) - 1) : ~(g[i] = "_" /\ g[i + 1] = "_")

DigitsOf(g) == SelectSeq(g, LAMBDA c : c \in Digits)

\* The text before the first c of s (all of s when there is none), and the
\* text after it.
Before(s, c) ==
    IF Positions(s, c) = {} THEN s
    ELSE SubSeq(s, 1, (CHOOSE i \in Positions(s, c) : \A j \in Positions(s, c) : i <= j) - 1)

After(s, c) ==
    IF Positions(s, c) = {} THEN <<>>
    ELSE SubSeq(s, (CHOOSE i \in Positions(s, c) : \A j \in Positions(s, c) : i <= j) + 1, Len(s))

\* ValueError
FloatError == [ok |-> FALSE, value |-> Zero]

\* The digits d without the zeros at their head.
StripLeadingZeros(d) ==
    SubSeq(d, 1 + Cardinality({i \in 1..Len(d) : \A j \in 1..i : DigitVal(d[j]) = 0}), Len(d))

\* The number of zeros that end the digits d.
TrailingZeroDigits(d) ==
    Cardinality({i \in 1..Len(d) : \A j \in i..Len(d) : DigitVal(d[j]) = 0})

\* 10^n
RECURSIVE NatPow10(_)
NatPow10(n) ==
    IF n < 5 THEN <<DecimalValue(<<"1">> \o [i \in 1..n |-> "0"])>>
    ELSE NatMul(NatPow10(n \div 2), NatPow10(n - n \div 2))

\* The natural number written by the digits lo..hi of d.
RECURSIVE NatOfDigitRange(_, _, _)
NatOfDigitRange(d, lo, hi) ==
    IF hi - lo < 4 THEN NatTrim(<<DecimalValue(SubSeq(d, lo, hi))>>)
    ELSE NatAdd(NatMul(NatOfDigitRange(d, lo, (lo + hi) \div 2),
                       NatPow10(hi - (lo + hi) \div 2)),
                NatOfDigitRange(d, (lo + hi) \div 2 + 1, hi))

\* The natural number written by the digits d.
NatOfDigits(d) == NatOfDigitRange(d, 1, Len(d))

\* The double nearest to s * (qr.q + f) * 2^e, qr the quotient and the
\* remainder of a division and f the part of the quotient the remainder
\* stands for.
RoundQuotient(s, qr, e) == RoundToDouble(s, qr.q, e, qr.r # <<>>)

\* The double nearest to s * n / d, for n > 0 and d > 0: n or d is scaled
\* by the power of two that makes n 56 bits longer than d, and so gives
\* the quotient 56 or 57 bits; gap is BitLen(n) - BitLen(d).
RoundRatio(s, n, d, gap) ==
    RoundQuotient(s, NatDivMod(ShiftLeft(n, Max(56 - gap, 0)), ShiftLeft(d, Max(gap - 56, 0))),
                  gap - 56)

\* The double nearest to s * sig * 10^x, sig digits without leading zero.
\* A value of 10^309 or more is beyond the largest double and one below
\* 10^-330 is below half the smallest; between them the value is rounded.
DecimalToDouble(s, sig, x) ==
    IF sig = <<>> THEN SignedZero(s)
    ELSE IF Len(sig) + x > 309 THEN Infinity(s)
    ELSE IF Len(sig) + x < 0 - 330 THEN SignedZero(s)
    ELSE IF x >= 0 THEN RoundToDouble(s, NatMul(NatOfDigits(sig), NatPow10(x)), 0, FALSE)
    ELSE RoundRatio(s, NatOfDigits(sig), NatPow10(0 - x),
                    BitLen(NatOfDigits(sig)) - BitLen(NatPow10(0 - x)))

\* sign * (the digits ip and fp, the point between them) * 10^exp: the
\* zeros at either end of the digits are dropped first.
Scaled(sign, ip, fp, exp) ==
    DecimalToDouble(sign,
        SubSeq(StripLeadingZeros(ip \o fp), 1,
               Len(StripLeadingZeros(ip \o fp)) - TrailingZeroDigits(StripLeadingZeros(ip \o fp))),
        exp - Len(fp) + TrailingZeroDigits(StripLeadingZeros(ip \o fp)))

\* The integer part ip and the fraction fp of a decimal text, to be scaled
\* by 10^exp: each is empty or a digit group, and not both are empty.
FloatParts(sign, ip, fp, exp) ==
    IF \/ ~(ip = <<>> \/ DigitGroup(ip))
       \/ ~(fp = <<>> \/ DigitGroup(fp))
       \/ (ip = <<>> /\ fp = <<>>)
    THEN FloatError
    ELSE [ok |-> TRUE, value |-> Scaled(sign, DigitsOf(ip), DigitsOf(fp), exp)]

\* The part of a decimal text before its exponent: at most one '.'.
FloatPoint(sign, mant, exp) ==
    IF Cardinality(Positions(mant, ".")) > 1 THEN FloatError
    ELSE FloatParts(sign, Before(mant, "."), After(mant, "."), exp)

\* The value of the exponent digits d; an exponent of ten digits or more
\* counts as 10^9, which puts every text beyond the range of doubles.
ExponentValue(d) ==
    IF Len(StripLeadingZeros(d)) > 9 THEN 1000000000 ELSE DecimalValue(StripLeadingZeros(d))

\* The exponent of a decimal text: a digit group after an optional sign.
FloatExponent(sign, mant, esign, edig) ==
    IF ~DigitGroup(edig) THEN FloatError
    ELSE FloatPoint(sign, mant, esign * ExponentValue(DigitsOf(edig)))

\* An unsigned float text: 'nan', 'inf', 'infinity', or a decimal number
\* with an optional exponent after one 'e'.
FloatUnsigned(sign, body) ==
    IF body = <<"n", "a", "n">> THEN [ok |-> TRUE, value |-> NaN]
    ELSE IF body \in {<<"i", "n", "f">>, <<"i", "n", "f", "i", "n", "i", "t", "y">>}
    THEN [ok |-> TRUE, value |-> Infinity(sign)]
    ELSE IF Cardinality(Positions(body, "e")) > 1 THEN FloatError
    ELSE IF Positions(body, "e") = {} THEN FloatPoint(sign, body, 0)
    ELSE FloatExponent(sign, Before(body, "e"),
                       IF Len(After(body, "e")) > 0 /\ After(body, "e")[1] = "-"
                       THEN 0 - 1 ELSE 1,
                       IF Len(After(body, "e")) > 0 /\ After(body, "e")[1] \in {"-", "+"}
                       THEN Tail(After(body, "e")) ELSE After(body, "e"))

\* A float text without surrounding whitespace, in lower case: an optional
\* sign, then the unsigned text.
FloatSigned(s) ==
    FloatUnsigned(IF Len(s) > 0 /\ s[1] = "-" THEN 0 - 1 ELSE 1,
                  IF Len(s) > 0 /\ s[1] \in {"-", "+"} THEN Tail(s) ELSE s)

\* float(text): surrounding whitespace is dropped; then an optional sign
\* and 'nan', 'inf' or 'infinity' in any case, or a decimal number: digits
\* with an optional '.', an optional exponent, underscores allowed between
\* digits; the value is the double nearest to the number written.
\* ok = FALSE is ValueError.
float(text) == FloatSigned(Lower(Strip(text)))

\* ------------------------------------------------------------ request texts
D0105  == <<"2", "0", "2", "4", "-", "0", "1", "-", "0", "5">>
DSp5   == <<"2", "0", "2", "4", "-", "0", "1", "-", " ", "5">>
D0110  == <<"2", "0", "2", "4", "-", "0", "1", "-", "1", "0">>
D0230  == <<"2", "0", "2", "4", "-", "0", "2", "-", "3", "0">>

A1000  == <<"1", "0", "0", "0", ".", "0", "0">>
A1e3   == <<"1", "e", "3">>
A5025  == <<"5", "0", ".", "2", "5">>
AMilli == <<"0", ".", "0", "0", "1">>
ANan   == <<"n", "a", "n">>
AZero  == <<"0">>
ANeg   == <<" ", "-", "5">>
AWord  == <<"a", "b", "c">>

AddForm(d, t, c, s, a) ==
    [date |-> d, type |-> t, category |-> c, description |-> s, amount |-> a]

\* Bodies of POST /add drawn by the model: well-formed ones, and ones with
\* a bad or absent date, a bad, absent, non-positive or not-a-number
\* amount, or a type outside Income / Expense.
AddForms ==
    { AddForm(D0105, "Income", "Salary", "", A1000),
      AddForm(DSp5, "Income", "Salary", "", A1e3),
      AddForm(D0105, "Expense", "Groceries", "Weekly", A5025),
      AddForm(D0110, "Transfer", "Misc", "", AMilli),
      AddForm(D0110, "Income", "Salary", "", ANan),
      AddForm(D0105, "Income", "Salary", "", AZero),
      AddForm(D0105, "Expense", "Groceries", "Weekly", ANeg),
      AddForm(D0105, "Income", "Salary", "", AWord),
      AddForm(D0230, "Expense", "Groceries", "Weekly", ANeg),
      [type |-> "Income", category |-> "Salary", description |-> "", amount |-> ANeg],
      [date |-> D0105, type |-> "Income", category |-> "Salary", description |-> ""] }

\* A request without a session is turned away before its body is read: two
\* of the bodies are drawn for it.
AnonymousAddForms ==
    { AddForm(D0105, "Income", "Salary", "", A1000),
      AddForm(D0105, "Income", "Salary", "", AZero) }

\* The date and amount texts of those bodies, each parsed once.
DateTexts == {f.date : f \in {g \in AddForms : "date" \in DOMAIN g}}

AmountTexts == {f.amount : f \in {g \in AddForms : "amount" \in DOMAIN g}}

ParsedDate == [s \in DateTexts |-> strptime(s)]

ParsedAmount == [s \in AmountTexts |-> float(s)]

Usernames == {"admin", "bob"}
Passwords == {"pw1", "pw2"}

\* ADMIN_PASSWORD in the environment of init-db.
AdminPasswords == {"pw1"}
LoginForms == [username : Usernames, password : Passwords]

\* A client that is already authenticated is redirected before its body is
\* read: two of the bodies are drawn for it.
AuthenticatedLoginForms ==
    { [username |-> "admin", password |-> "pw1"],
      [username |-> "bob", password |-> "pw2"] }

NoForm == [k \in {} |-> ""]

\* ---------------------------------------------------------------- sessions
\* A session cookie: the signed client-side session, known by what the
\* server reads from it, the '_user_id' that login_user put there.
\* user_id = 0 is a session without '_user_id' (anonymous).
NoSession == [user_id |-> 0]

\* werkzeug's salted one-way hash behind User.set_password: an abstract
\* digest of salt and password.
generate_password_hash(salt, password) == [salt |-> salt, digest |-> <<salt, password>>]

\* User.check_password: recompute the digest with the stored salt.
check_password(user, password) ==
    user.password_hash = generate_password_hash(user.password_hash.salt, password)

\* User.query.get(int(user_id)): the rows with that primary key (none or one).
load_user(user_id) == SelectSeq(users, LAMBDA u : u.id = user_id)

\* flask_login current_user for a request presenting the cookie tok: an
\* anonymous session is answered without a query.
CurrentUser(tok) == IF tok.user_id = 0 THEN <<>> ELSE load_user(tok.user_id)

IsAuthenticated(tok) == CurrentUser(tok) # <<>>

\* A query on the model class t raises OperationalError (no such table)
\* while its table does not exist.
NoTable(t) == t \notin tables

\* The query of load_user, made for a session that carries a user id.
LoadFails(tok) == tok.user_id # 0 /\ NoTable("User")

\* User.query.filter_by(username=username).first()
FindUser(username) == SelectSeq(users, LAMBDA u : u.username = username)

\* LoginRequired with the decorator missing on download_csv.
LoginRequiredExceptCsv(op) ==
    op \in {"dashboard", "list_transactions", "add_transaction", "logout"}

\* The views decorated with @login_required.
LoginRequired(op) ==
    op \in {"dashboard", "list_transactions", "add_transaction", "logout", "download_csv"}

\* ---------------------------------------------------------------- responses
Blank ==
    [kind |-> "", target |-> "", flash |-> "", rows |-> <<>>, csv |-> <<>>,
     income |-> Zero, expense |-> Zero, balance |-> Zero, session |-> NoSession]

Render(tok, template, flash) ==
    [Blank EXCEPT !.kind = "render", !.target = template, !.flash = flash, !.session = tok]

Redirect(tok, endpoint, flash) ==
    [Blank EXCEPT !.kind = "redirect", !.target = endpoint, !.flash = flash, !.session = tok]

\* An exception no handler catches: the request ends in an error response.
ServerError(tok) == [Blank EXCEPT !.kind = "error500", !.session = tok]

\* Not a response: the handler has run the statement named by stage and has
\* more to run before it answers.
Pending(tok, stage) == [Blank EXCEPT !.kind = "pending", !.target = stage, !.session = tok]

\* login_manager.login_view = 'login': what @login_required answers to a
\* request whose current_user is anonymous; a request whose user could not
\* be loaded ends in the error.
Unauthorized(tok) ==
    IF LoadFails(tok) THEN ServerError(tok)
    ELSE Redirect(tok, "login", "Please log in to access this page.")

Request(op, method, tok, form) == [op |-> op, method |-> method, token |-> tok, form |-> form]

Tokens == issued \cup {NoSession}

\* ------------------------------------------------------------------ queries
DateOrd(d) == d.y * 372 + d.m * 31 + d.d

Perms(n) == {p \in [1..n -> 1..n] : \A i, j \in 1..n : p[i] = p[j] => i = j}

\* The permutations of 1..n for every table size the model reaches.
PermTable == [n \in 0..MaxLedger |-> Perms(n)]

\* Transaction.query.all(): every row, in an order the query does not fix.
QueryAll(tbl) == {[i \in 1..Len(tbl) |-> tbl[p[i]]] : p \in PermTable[Len(tbl)]}

\* Transaction.query.order_by(Transaction.date.desc()).all(): every row,
\* dates non-increasing; the order among rows of one date is not fixed by
\* the query.
OrderByDateDesc(tbl) ==
    {r \in QueryAll(tbl) :
        \A i, j \in 1..Len(r) : i < j => DateOrd(r[i].date) >= DateOrd(r[j].date)}

\* .limit(n)
Limit(rows, n) == SubSeq(rows, 1, Min(n, Len(rows)))

\* NULL in the amount column.
None == [k |-> "none", s |-> 1, m |-> <<>>, e |-> 0]

\* The amounts of rows added to 0.0 one after the other.
RECURSIVE SumInOrder(_)
SumInOrder(rows) ==
    IF rows = <<>> THEN Zero
    ELSE FloatAdd(SumInOrder(SubSeq(rows, 1, Len(rows) - 1)), rows[Len(rows)].amount)

\* The rows of type t whose amount is not NULL: SUM passes over NULLs.
Summed(tbl, t) == SelectSeq(tbl, LAMBDA r : r.type = t /\ r.amount # None)

\* db.func.sum(Transaction.amount) ... filter_by(type=t).scalar(), the
\* results it can have: NULL (the empty tuple here) when no row counts,
\* else the one-element tuple of the sum; the query does not fix the order
\* in which the database adds the rows up, and the sum of doubles depends
\* on it.
SumAmount(tbl, t) ==
    IF Summed(tbl, t) = <<>> THEN {<<>>}
    ELSE {<<SumInOrder(rows)>> : rows \in QueryAll(Summed(tbl, t))}

\* `x or 0.0`: None and the zeros are falsy, nan and the infinities are not.
OrZero(x) == IF x = <<>> THEN Zero ELSE IF IsZero(x[1]) THEN Zero ELSE x[1]

TotalByType(tbl, t) == {OrZero(x) : x \in SumAmount(tbl, t)}

\* ----------------------------------------------------------------- handlers
\* No dashboard request in progress.
Idle == [pc |-> 0, token |-> NoSession, income |-> Zero, expense |-> Zero]

\* The model classes whose tables db.create_all() makes, in the order it
\* makes them: a table after the ones it refers to, and a transaction
\* refers to its owning user.
CreateOrder == <<"User", "Transaction">>

AllTables == {CreateOrder[i] : i \in 1..Len(CreateOrder)}

\* The statements of a run of init-db, in the order it issues them: the
\* CREATE TABLE of CreateOrder[i] is statement i, then come the lookup of
\* the seed user and its INSERT.
LookupStage == Len(CreateOrder) + 1

CommitStage == Len(CreateOrder) + 2

NoRuns == [stage \in 1..CommitStage |-> 0]

RECURSIVE RunsUpTo(_)
RunsUpTo(stage) == IF stage = 0 THEN 0 ELSE runs[stage] + RunsUpTo(stage - 1)

\* The number of operations in progress between two of their database
\* statements: the init-db runs and the dashboard request.
InProgress == RunsUpTo(CommitStage) + (IF dash.pc = 0 THEN 0 ELSE 1)

\* The app as its module is loaded (lines 20-40) with an empty database.
\* Started as a script, it has run db.create_all() in its __main__ block
\* before it serves; started by a WSGI server or `flask run`, it has not,
\* and the tables are missing until init-db makes them.
Init ==
    /\ tables \in {{}, AllTables}
    /\ users = <<>>
    /\ ledger = <<>>
    /\ issued = {}
    /\ dash = Idle
    /\ runs = NoRuns
    /\ last = [req |-> Request("start", "", NoSession, NoForm), resp |-> Blank]

\* GET /, up to its first query: the @login_required check and the sum of
\* the Income amounts.  The handler's three queries are three statements
\* sent to the database one after the other; what other requests commit in
\* between is seen by the later ones.  One dashboard request is followed
\* through its queries at a time, and no more than MaxInProgress
\* operations (this request, the init-db runs) between their statements.
dashboard_total_income(tok) ==
    /\ UNCHANGED <<tables, users, ledger, issued, runs>>
    /\ IF LoginRequired("dashboard") /\ ~IsAuthenticated(tok)
       THEN /\ last' = [req |-> Request("dashboard", "GET", tok, NoForm),
                        resp |-> Unauthorized(tok)]
            /\ UNCHANGED dash
       ELSE IF NoTable("Transaction")
       THEN /\ last' = [req |-> Request("dashboard", "GET", tok, NoForm),
                        resp |-> ServerError(tok)]
            /\ UNCHANGED dash
       ELSE /\ dash.pc = 0
            /\ InProgress < MaxInProgress
            /\ \E total_income \in TotalByType(ledger, "Income") :
                 dash' = [pc |-> 1, token |-> tok,
                          income |-> total_income, expense |-> Zero]
            /\ last' = [req |-> Request("dashboard", "GET", tok, NoForm),
                        resp |-> Pending(tok, "total_income")]

\* GET /, second query: the sum of the Expense amounts.
dashboard_total_expense ==
    /\ dash.pc = 1
    /\ UNCHANGED <<tables, users, ledger, issued, runs>>
    /\ \E total_expense \in TotalByType(ledger, "Expense") :
         dash' = [dash EXCEPT !.pc = 2, !.expense = total_expense]
    /\ last' = [req |-> Request("dashboard", "GET", dash.token, NoForm),
                resp |-> Pending(dash.token, "total_expense")]

\* GET /, the balance, the third query (the ten most recent rows) and the
\* page.
dashboard_recent_transactions ==
    /\ dash.pc = 2
    /\ UNCHANGED <<tables, users, ledger, issued, runs>>
    /\ dash' = Idle
    /\ \E ordered \in OrderByDateDesc(ledger) :
         LET total_income  == dash.income
             total_expense == dash.expense
             balance       == FloatSub(total_income, total_expense)
             recent_transactions == Limit(ordered, RecentLimit)
         IN  last' = [req  |-> Request("dashboard", "GET", dash.token, NoForm),
                      resp |-> [Render(dash.token, "dashboard.html", "") EXCEPT
                                  !.income = total_income,
                                  !.expense = total_expense,
                                  !.balance = balance,
                                  !.rows = recent_transactions]]

\* GET /transactions
list_transactions(tok) ==
    /\ UNCHANGED <<tables, users, ledger, issued, dash, runs>>
    /\ IF LoginRequired("list_transactions") /\ ~IsAuthenticated(tok)
       THEN last' = [req |-> Request("list_transactions", "GET", tok, NoForm),
                     resp |-> Unauthorized(tok)]
       ELSE IF NoTable("Transaction")
       THEN last' = [req |-> Request("list_transactions", "GET", tok, NoForm),
                     resp |-> ServerError(tok)]
       ELSE \E all_tx \in OrderByDateDesc(ledger) :
              last' = [req  |-> Request("list_transactions", "GET", tok, NoForm),
                       resp |-> [Render(tok, "transactions.html", "") EXCEPT !.rows = all_tx]]

\* AmountRejected with `<` for `<=`.
AmountRejectedBelowZero(amount) == amount.k # "nan" /\ ~IsZero(amount) /\ amount.s = 0 - 1

\* `if amount <= 0`
AmountRejected(amount) == FloatLeZero(amount)

\* NewTransaction with category and description passed in each other's place.
NewTransactionSwapped(date, type, category, description, amount, user_id) ==
    [id |-> 0, date |-> date, type |-> type, category |-> description,
     description |-> category, amount |-> amount, user_id |-> user_id]

\* Transaction(date=..., type=..., category=..., description=..., amount=...,
\* user_id=current_user.id); the primary key is assigned at commit.
NewTransaction(date, type, category, description, amount, user_id) ==
    [id |-> 0, date |-> date, type |-> type, category |-> category,
     description |-> description, amount |-> amount, user_id |-> user_id]

\* The row as the table takes it.
Stored(tbl, row) == Append(tbl, [row EXCEPT !.id = Len(tbl) + 1])

\* db.session.add(new_trans); db.session.commit(): the outcomes it can
\* have, each the exception raised (none: "") and the table left.  A nan
\* amount is taken as it is by a database that has NaN in its float type
\* (PostgreSQL); SQLite, the default database, binds it as NULL, which the
\* amount column stores if it is nullable and refuses (IntegrityError) if
\* it is NOT NULL.  The column is declared in models.py.  Without the
\* table the INSERT raises OperationalError.
Commit(tbl, row) ==
    IF NoTable("Transaction") THEN {[err |-> "OperationalError", ledger |-> tbl]}
    ELSE IF row.amount.k = "nan"
    THEN {[err |-> "", ledger |-> Stored(tbl, row)],
          [err |-> "", ledger |-> Stored(tbl, [row EXCEPT !.amount = None])],
          [err |-> "IntegrityError", ledger |-> tbl]}
    ELSE {[err |-> "", ledger |-> Stored(tbl, row)]}

\* request.form.get(field) handed to a parser whose results for the texts
\* are in table: an absent field is None, on which strptime and float raise
\* TypeError.
ParseField(form, field, table) ==
    IF field \notin DOMAIN form THEN [err |-> "TypeError", value |-> Zero]
    ELSE IF ~table[form[field]].ok THEN [err |-> "ValueError", value |-> Zero]
    ELSE [err |-> "", value |-> table[form[field]].value]

\* The body of POST /add for an authenticated request, given what the two
\* parsers made of the date and the amount (the date is parsed first): the
\* outcomes it can have, each the response and the ledger left.  `except
\* ValueError` catches neither a TypeError nor an exception of the commit.
AddPost(tok, form, date, amount) ==
    IF date.err = "TypeError" \/ (date.err = "" /\ amount.err = "TypeError")
    THEN {[resp |-> ServerError(tok), ledger |-> ledger]}
    ELSE IF date.err = "ValueError" \/ amount.err = "ValueError"
    THEN {[resp |-> Render(tok, "add_transaction.html",
                           "danger: Invalid data provided. Please check your inputs."),
           ledger |-> ledger]}
    ELSE IF AmountRejected(amount.value)
    THEN {[resp |-> Render(tok, "add_transaction.html",
                           "warning: Amount must be a positive number."),
           ledger |-> ledger]}
    ELSE {[resp |-> IF done.err = ""
                    THEN Redirect(tok, "dashboard", "success: Transaction added successfully!")
                    ELSE ServerError(tok),
           ledger |-> done.ledger] :
             done \in Commit(ledger,
                             NewTransaction(date.value, form.type, form.category,
                                            form.description, amount.value,
                                            CurrentUser(tok)[1].id))}

\* GET and POST /add
add_transaction(tok, method, form) ==
    /\ UNCHANGED <<tables, users, issued, dash, runs>>
    /\ IF LoginRequired("add_transaction") /\ ~IsAuthenticated(tok)
       THEN /\ last' = [req |-> Request("add_transaction", method, tok, form),
                        resp |-> Unauthorized(tok)]
            /\ UNCHANGED ledger
       ELSE IF method = "POST"
       THEN \E out \in AddPost(tok, form, ParseField(form, "date", ParsedDate),
                               ParseField(form, "amount", ParsedAmount)) :
                /\ Len(out.ledger) <= MaxLedger
                /\ ledger' = out.ledger
                /\ last' = [req |-> Request("add_transaction", method, tok, form),
                            resp |-> out.resp]
       ELSE /\ last' = [req |-> Request("add_transaction", method, tok, form),
                        resp |-> Render(tok, "add_transaction.html", "")]
            /\ UNCHANGED ledger

\* LoginUserOK without the password check.
LoginUserOKAnyPassword(found, password) == found # <<>>

\* `if user and user.check_password(password)`
LoginUserOK(found, password) == found # <<>> /\ check_password(found[1], password)

\* GET and POST /login.  `current_user.is_authenticated` loads the user of
\* the session; the query of a POST raises OperationalError while the
\* table of User does not exist, and nothing catches it.
login(tok, method, form) ==
    /\ UNCHANGED <<tables, users, ledger, dash, runs>>
    /\ IF IsAuthenticated(tok)
       THEN /\ last' = [req |-> Request("login", method, tok, form),
                        resp |-> Redirect(tok, "dashboard", "")]
            /\ UNCHANGED issued
       ELSE IF LoadFails(tok) \/ (method = "POST" /\ NoTable("User"))
       THEN /\ last' = [req |-> Request("login", method, tok, form),
                        resp |-> ServerError(tok)]
            /\ UNCHANGED issued
       ELSE IF method = "POST"
       THEN LET user == FindUser(form.username)
            IN  IF LoginUserOK(user, form.password)
                THEN \* login_user(user): a fresh signed session carrying the id
                     LET fresh == [user_id |-> user[1].id]
                     IN  /\ issued' = issued \cup {fresh}
                         /\ last' = [req |-> Request("login", method, tok, form),
                                     resp |-> Redirect(fresh, "dashboard", "")]
                ELSE /\ last' = [req |-> Request("login", method, tok, form),
                                 resp |-> Render(tok, "login.html",
                                            "Invalid username or password. Please try again.")]
                     /\ UNCHANGED issued
       ELSE /\ last' = [req |-> Request("login", method, tok, form),
                        resp |-> Render(tok, "login.html", "")]
            /\ UNCHANGED issued

\* GET /logout.  logout_user() empties the session of the response; the
\* server keeps no record of the cookie that was presented.
logout(tok) ==
    /\ UNCHANGED <<tables, users, ledger, issued, dash, runs>>
    /\ IF LoginRequired("logout") /\ ~IsAuthenticated(tok)
       THEN last' = [req |-> Request("logout", "GET", tok, NoForm), resp |-> Unauthorized(tok)]
       ELSE last' = [req |-> Request("logout", "GET", tok, NoForm),
                     resp |-> Redirect(NoSession, "login", "")]

\* A row of the data frame as to_csv writes it: a missing amount (None or
\* nan) is an empty cell.
CsvRow(d) ==
    <<d.date, d.type, d.category, d.description,
      IF d.amount.k \in {"none", "nan"} THEN "" ELSE d.amount>>

\* GET /download/csv
download_csv(tok) ==
    /\ UNCHANGED <<tables, users, ledger, issued, dash, runs>>
    /\ IF LoginRequired("download_csv") /\ ~IsAuthenticated(tok)
       THEN last' = [req |-> Request("download_csv", "GET", tok, NoForm),
                     resp |-> Unauthorized(tok)]
       ELSE IF NoTable("Transaction")
       THEN last' = [req |-> Request("download_csv", "GET", tok, NoForm),
                     resp |-> ServerError(tok)]
       ELSE \E query \in QueryAll(ledger) :
              last' = [req  |-> Request("download_csv", "GET", tok, NoForm),
                       resp |-> [Blank EXCEPT
                                   !.kind = "file", !.target = "text/csv", !.session = tok,
                                   !.csv = <<<<"Date", "Type", "Category", "Description", "Amount">>>>
                                           \o [i \in 1..Len(query) |-> CsvRow(query[i])]]]

\* `if not User.query.filter_by(username='admin').first()`
AdminExists == FindUser("admin") # <<>>

\* A run of flask init-db; env is its environment.
InitDb(env) == Request("init-db", "", NoSession, env)

\* The User table's INSERT: usernames are unique, and a row whose username
\* is taken is refused (IntegrityError).
InsertUser(tbl, row) ==
    IF \E i \in 1..Len(tbl) : tbl[i].username = row.username
    THEN [ok |-> FALSE, users |-> tbl]
    ELSE [ok |-> TRUE, users |-> Append(tbl, [row EXCEPT !.id = Len(tbl) + 1])]

\* The tables db.create_all() finds missing, in the order it will make
\* them.
Missing == SelectSeq(CreateOrder, NoTable)

\* A run of init-db past one of its statements.
Advance(stage) == [runs EXCEPT ![stage] = @ - 1, ![stage + 1] = @ + 1]

\* A run of init-db ended at one of its statements.
End(stage) == [runs EXCEPT ![stage] = @ - 1]

\* flask init-db, the start of db.create_all(): it asks the database which
\* of the tables exist and goes on to make the missing ones, or, with none
\* missing, to the lookup.  Each run is a process of its own, and what it
\* found missing it will try to create, whatever other runs do meanwhile.
\* (It asks for the tables one after the other, in the order they are
\* made, before it creates any.  A run whose questions another run's
\* CREATE TABLE falls between is refused at its first CREATE TABLE, as is
\* the run that had all its answers before that CREATE TABLE; so the
\* questions are taken as one read.)  No more than MaxInProgress
\* operations are followed between their statements at a time.
init_db_command_create_all ==
    /\ InProgress < MaxInProgress
    /\ runs' = [runs EXCEPT ![LookupStage - Len(Missing)] = @ + 1]
    /\ UNCHANGED <<tables, users, ledger, issued, dash>>
    /\ last' = [req  |-> InitDb(NoForm),
                resp |-> [Blank EXCEPT !.kind = "pending", !.target = "create_all"]]

\* flask init-db, a CREATE TABLE of db.create_all(), each a statement the
\* database takes by itself.  The table another run has made since this run
\* asked is refused (OperationalError, table already exists), and the run
\* ends there, before its lookup.
init_db_command_create_table(stage) ==
    /\ runs[stage] > 0
    /\ UNCHANGED <<users, ledger, issued, dash>>
    /\ IF NoTable(CreateOrder[stage])
       THEN /\ tables' = tables \cup {CreateOrder[stage]}
            /\ runs' = Advance(stage)
            /\ last' = [req  |-> InitDb(NoForm),
                        resp |-> [Blank EXCEPT !.kind = "pending", !.target = "create_all"]]
       ELSE /\ UNCHANGED tables
            /\ runs' = End(stage)
            /\ last' = [req  |-> InitDb(NoForm),
                        resp |-> [Blank EXCEPT !.kind = "cli_error",
                                    !.flash = "OperationalError"]]

\* flask init-db, the lookup of the seed user after db.create_all() has
\* returned.  The lookup and the later INSERT are two statements, and
\* another run may do either in between.
init_db_command_lookup ==
    /\ runs[LookupStage] > 0
    /\ UNCHANGED <<tables, users, ledger, issued, dash>>
    /\ IF ~AdminExists
       THEN /\ runs' = Advance(LookupStage)
            /\ last' = [req  |-> InitDb(NoForm),
                        resp |-> [Blank EXCEPT !.kind = "pending", !.target = "lookup"]]
       ELSE /\ runs' = End(LookupStage)
            /\ last' = [req  |-> InitDb(NoForm),
                        resp |-> [Blank EXCEPT !.kind = "cli",
                                    !.flash = "Database already initialized and 'admin' user exists."]]

\* flask init-db after a lookup that found no seed user: read
\* ADMIN_PASSWORD, set_password, add, commit, print.  A refused INSERT ends
\* the run with the exception.
init_db_command_commit(admin_password, salt) ==
    /\ runs[CommitStage] > 0
    /\ runs' = End(CommitStage)
    /\ UNCHANGED <<tables, ledger, issued, dash>>
    /\ LET admin == [id |-> 0, username |-> "admin",
                     password_hash |-> generate_password_hash(salt, admin_password)]
           out   == InsertUser(users, admin)
       IN  /\ users' = out.users
           /\ last' = [req  |-> InitDb([admin_password |-> admin_password]),
                       resp |-> IF out.ok
                                THEN [Blank EXCEPT !.kind = "cli",
                                        !.flash = "Database initialized and user 'admin' created."]
                                ELSE [Blank EXCEPT !.kind = "cli_error",
                                        !.flash = "IntegrityError"]]

Salts == {"s1"}

Next ==
    \/ \E tok \in Tokens : dashboard_total_income(tok)
    \/ dashboard_total_expense
    \/ dashboard_recent_transactions
    \/ \E tok \in Tokens : list_transactions(tok)
    \/ \E tok \in issued, form \in AddForms : add_transaction(tok, "POST", form)
    \/ \E form \in AnonymousAddForms : add_transaction(NoSession, "POST", form)
    \/ \E tok \in Tokens : add_transaction(tok, "GET", NoForm)
    \/ \E form \in LoginForms : login(NoSession, "POST", form)
    \/ \E tok \in issued, form \in AuthenticatedLoginForms : login(tok, "POST", form)
    \/ \E tok \in Tokens : login(tok, "GET", NoForm)
    \/ \E tok \in Tokens : logout(tok)
    \/ \E tok \in Tokens : download_csv(tok)
    \/ init_db_command_create_all
    \/ \E stage \in 1..Len(CreateOrder) : init_db_command_create_table(stage)
    \/ init_db_command_lookup
    \/ \E pw \in AdminPasswords, salt \in Salts : init_db_command_commit(pw, salt)

Spec == Init /\ [][Next]_vars

\* ------------------------------------------------------------------- claims
\* What the claims speak of, stated apart from the handlers.
ProtectedRoutes ==
    {"dashboard", "list_transactions", "add_transaction", "download_csv", "logout"}

TransactionTypes == {"Income", "Expense"}

InvalidCredentials == "Invalid username or password. Please try again."

AmountWarning == "warning: Amount must be a positive number."

InvalidData == "danger: Invalid data provided. Please check your inputs."

AlreadyInitialized == "Database already initialized and 'admin' user exists."

AdminCreated == "Database initialized and user 'admin' created."

\* The submitted username exists and the password verifies against its hash.
CredentialsVerify(form) ==
    \E i \in 1..Len(users) :
        users[i].username = form.username /\ check_password(users[i], form.password)

\* The submitted amount is a number <= 0.
AmountNonPositive(form) ==
    /\ "amount" \in DOMAIN form
    /\ ParsedAmount[form.amount].ok
    /\ ParsedAmount[form.amount].value.k # "nan"
    /\ (IsZero(ParsedAmount[form.amount].value) \/ ParsedAmount[form.amount].value.s = 0 - 1)

\* The submitted amount is a number > 0.
AmountPositive(form) ==
    /\ "amount" \in DOMAIN form
    /\ ParsedAmount[form.amount].ok
    /\ ParsedAmount[form.amount].value.k # "nan"
    /\ ~IsZero(ParsedAmount[form.amount].value) /\ ParsedAmount[form.amount].value.s = 1

DateParses(form) == "date" \in DOMAIN form /\ ParsedDate[form.date].ok

\* A well-formed submission: a valid date, a type of the enumeration, an
\* amount > 0.
ValidSubmission(form) ==
    DateParses(form) /\ form.type \in TransactionTypes /\ AmountPositive(form)

AuthedAddPost(e) ==
    e.req.op = "add_transaction" /\ e.req.method = "POST" /\ IsAuthenticated(e.req.token)

\* A step at which a request arrives, as opposed to a later statement of a
\* dashboard request that arrived before.
Arrives == dash.pc = 0 \/ last'.req.op # "dashboard" \/ last'.resp.kind = "redirect"

\* The sums of the amounts of the rows S of tbl, one for each order in
\* which they can be added.
RECURSIVE SumsOfRows(_, _)
SumsOfRows(tbl, S) ==
    IF S = {} THEN {Zero}
    ELSE UNION {{FloatAdd(x, tbl[i].amount) : x \in SumsOfRows(tbl, S \ {i})} : i \in S}

\* The rows of type t that have an amount.
RowsOfType(tbl, t) == {i \in 1..Len(tbl) : tbl[i].type = t /\ tbl[i].amount.k # "none"}

Occurrences(rows, r) == Cardinality({i \in 1..Len(rows) : rows[i] = r})

AdminCount(tbl) == Cardinality({i \in 1..Len(tbl) : tbl[i].username = "admin"})

\* C1: a request on a protected route (dashboard, transaction list, GET or
\* POST add, CSV export, logout) that carries no authenticated session is
\* answered by the redirect to the login view, with no rows, no summary and
\* no CSV in the response, and leaves ledger, user table and sessions as
\* they were.
C1_ProtectedRoutesRequireSession ==
    [][ (last'.req.op \in ProtectedRoutes /\ ~IsAuthenticated(last'.req.token))
        => /\ last'.resp.kind = "redirect" /\ last'.resp.target = "login"
           /\ last'.resp.rows = <<>> /\ last'.resp.csv = <<>>
           /\ last'.resp.income = Zero /\ last'.resp.expense = Zero
           /\ last'.resp.balance = Zero
           /\ ledger' = ledger /\ users' = users /\ issued' = issued
           /\ dash' = dash ]_vars

\* C1 witness: the CSV export was asked for without a session while the
\* ledger held records, and the answer was the redirect to login.
C1_Witness ==
    /\ last.req.op = "download_csv" /\ ~IsAuthenticated(last.req.token)
    /\ Len(ledger) > 0
    /\ last.resp.kind = "redirect" /\ last.resp.target = "login"

\* C2: once a logout has been performed with a session cookie, a protected
\* request that arrives presenting the same cookie is treated as
\* unauthenticated (redirected to login); taken here for the request that
\* comes right after the logout, before any new login.
C2_LogoutInvalidatesToken ==
    [][ ( /\ last.req.op = "logout" /\ last.resp = Redirect(NoSession, "login", "")
          /\ last'.req.op \in ProtectedRoutes /\ last'.req.token = last.req.token
          /\ Arrives )
        => (last'.resp.kind = "redirect" /\ last'.resp.target = "login") ]_vars

\* C3 as stated: every POST /login whose credentials do not verify (unknown
\* username, or known username and wrong password) gets the login form with
\* the generic invalid-credentials message (taken here for the requests
\* served once the table of User exists).
C3_Original ==
    ("User" \in tables /\ last.req.op = "login" /\ last.req.method = "POST"
       /\ ~CredentialsVerify(last.req.form))
        => last.resp = Render(last.req.token, "login.html", InvalidCredentials)

\* C3 amended: once the table of User exists, for a POST /login from a
\* client that is not already authenticated, credentials that do not verify
\* get one and the same answer, the login form with the generic message,
\* whether the username is unknown or the password wrong, and no session is
\* established; a session is established only by a POST /login whose
\* username exists and whose password verifies against the stored hash, and
\* it carries that user's id.  A client that is already authenticated is
\* redirected to the dashboard whatever it submits, its session unchanged.
\* Before that table exists (no create_all has made it, so no user exists
\* either) every POST /login ends in an unhandled error, whatever it
\* submits, and no session is established.
C3_GenericLoginFailure ==
    [][ /\ (last'.req.op = "login" /\ last'.req.method = "POST")
           => IF IsAuthenticated(last'.req.token)
              THEN /\ last'.resp = Redirect(last'.req.token, "dashboard", "")
                   /\ issued' = issued
              ELSE IF "User" \notin tables
              THEN /\ last'.resp = ServerError(last'.req.token)
                   /\ users = <<>> /\ issued' = issued
              ELSE IF CredentialsVerify(last'.req.form)
              THEN /\ last'.resp.kind = "redirect" /\ last'.resp.target = "dashboard"
                   /\ issued' = issued \cup {last'.resp.session}
                   /\ \E i \in 1..Len(users) :
                        /\ users[i].username = last'.req.form.username
                        /\ users[i].id = last'.resp.session.user_id
              ELSE /\ last'.resp = Render(last'.req.token, "login.html", InvalidCredentials)
                   /\ issued' = issued
        /\ (issued' # issued)
           => /\ last'.req.op = "login" /\ last'.req.method = "POST"
              /\ CredentialsVerify(last'.req.form) ]_vars

\* C3 witness: a login with the known username and a wrong password was
\* answered with the generic message.
C3_Witness ==
    /\ last.req.op = "login" /\ last.req.method = "POST"
    /\ FindUser(last.req.form.username) # <<>>
    /\ ~CredentialsVerify(last.req.form)
    /\ last.resp.flash = InvalidCredentials

\* C4 as stated: every add-transaction request whose amount is <= 0 is
\* answered with the invalid-amount warning (taken here for authenticated
\* requests that carry all five fields).
C4_Original ==
    (AuthedAddPost(last) /\ AmountNonPositive(last.req.form) /\ "date" \in DOMAIN last.req.form)
        => last.resp = Render(last.req.token, "add_transaction.html", AmountWarning)

\* C4 amended: an authenticated add-transaction request whose amount is
\* <= 0 persists nothing (the ledger is the same before and after); its
\* outcome is the invalid-amount warning when the submitted date parses,
\* the generic invalid-data notice when the date is present but does not
\* parse, and an unhandled error when the date field is absent.
C4_NonPositiveAmountNotPersisted ==
    [][ (AuthedAddPost(last') /\ AmountNonPositive(last'.req.form))
        => /\ ledger' = ledger /\ users' = users
           /\ last'.resp =
                IF DateParses(last'.req.form)
                THEN Render(last'.req.token, "add_transaction.html", AmountWarning)
                ELSE IF "date" \in DOMAIN last'.req.form
                THEN Render(last'.req.token, "add_transaction.html", InvalidData)
                ELSE ServerError(last'.req.token) ]_vars

\* C4 witness: an amount of zero was submitted with a good date to a
\* non-empty ledger and drew the warning.
C4_Witness ==
    /\ AuthedAddPost(last) /\ AmountNonPositive(last.req.form)
    /\ ParsedAmount[last.req.form.amount].value = Zero
    /\ DateParses(last.req.form)
    /\ Len(ledger) > 0
    /\ last.resp.flash = AmountWarning

\* C5: an add-transaction request whose type is not Income or Expense fails
\* (the form is shown again, nothing is persisted), so every ledger record
\* has a type of the enumeration.
C5_TypeValidated ==
    /\ \A i \in 1..Len(ledger) : ledger[i].type \in TransactionTypes
    /\ (AuthedAddPost(last) /\ last.req.form.type \notin TransactionTypes)
         => (last.resp.kind = "render" /\ last.resp.target = "add_transaction.html")

\* C6: an authenticated add-transaction request with a valid date, a type
\* of the enumeration and an amount > 0 succeeds (redirect to the
\* dashboard) and appends exactly one record carrying the submitted date,
\* type, category, description and amount and the session user's id; the
\* records that were there stay as they were, and every result of the
\* transaction list holds the new record exactly once.
C6_ValidAddAppendsRecord ==
    [][ (AuthedAddPost(last') /\ ValidSubmission(last'.req.form))
        => /\ last'.resp.kind = "redirect" /\ last'.resp.target = "dashboard"
           /\ Len(ledger') = Len(ledger) + 1
           /\ SubSeq(ledger', 1, Len(ledger)) = ledger
           /\ LET r == ledger'[Len(ledger')]
                  f == last'.req.form
              IN  /\ r.date = ParsedDate[f.date].value
                  /\ r.type = f.type
                  /\ r.category = f.category
                  /\ r.description = f.description
                  /\ r.amount = ParsedAmount[f.amount].value
                  /\ r.user_id = last'.req.token.user_id
                  /\ \A rows \in OrderByDateDesc(ledger') : Occurrences(rows, r) = 1 ]_vars

\* C6 witness: a valid submission was added to a ledger that already held a
\* record.
C6_Witness ==
    /\ AuthedAddPost(last) /\ ValidSubmission(last.req.form)
    /\ last.resp.kind = "redirect"
    /\ Len(ledger) >= 2
    /\ ledger[Len(ledger)].description = "Weekly"

\* C7: the transaction list holds every ledger record exactly once, dates
\* descending, and records of one date in insertion order.
C7_ListStableDateDesc ==
    (last.req.op = "list_transactions" /\ last.resp.kind = "render")
        => /\ Len(last.resp.rows) = Len(ledger)
           /\ \A i \in 1..Len(ledger) : Occurrences(last.resp.rows, ledger[i]) = 1
           /\ \A i, j \in 1..Len(last.resp.rows) :
                i < j => \/ DateOrd(last.resp.rows[i].date) > DateOrd(last.resp.rows[j].date)
                         \/ /\ last.resp.rows[i].date = last.resp.rows[j].date
                            /\ last.resp.rows[i].id < last.resp.rows[j].id

\* C8: the recent transactions of the dashboard are the first
\* min(10, number of records) rows of the transaction list, in its order.
C8_RecentIsPrefixOfList ==
    (last.req.op = "dashboard" /\ last.resp.kind = "render")
        => /\ Len(last.resp.rows) = Min(10, Len(ledger))
           /\ \A all_tx \in OrderByDateDesc(ledger) :
                last.resp.rows = SubSeq(all_tx, 1, Len(last.resp.rows))

\* C9: the dashboard's income is the sum of the amounts of the Income
\* records and its expense the sum of the amounts of the Expense records (0
\* when there is none) of one ledger state, that is, of the records
\* committed up to some moment (the ledger only grows); its balance is
\* income - expense; the empty ledger gives 0, 0, 0.
C9_SummaryIsSumByType ==
    (last.req.op = "dashboard" /\ last.resp.kind = "render")
        => /\ \E n \in 0..Len(ledger) :
                LET seen == SubSeq(ledger, 1, n)
                IN  /\ last.resp.income \in SumsOfRows(seen, RowsOfType(seen, "Income"))
                    /\ last.resp.expense \in SumsOfRows(seen, RowsOfType(seen, "Expense"))
           /\ last.resp.balance = FloatSub(last.resp.income, last.resp.expense)
           /\ (ledger = <<>>) =>
                (last.resp.income = Zero /\ last.resp.expense = Zero /\ last.resp.balance = Zero)

\* C10: there is never more than one user named 'admin', and every run of
\* init-db ends in one of two ways and writes nothing to the ledger: the
\* seed user existed, nothing was written and 'already initialized' was
\* reported; or it did not exist, and exactly one user 'admin' with a hash
\* of ADMIN_PASSWORD was created.
C10_InitDbIdempotent ==
    [][ /\ AdminCount(users') <= 1
        /\ (last'.req.op = "init-db" /\ last'.resp.kind # "pending")
           => /\ ledger' = ledger
              /\ \/ /\ AdminCount(users) = 1
                    /\ users' = users
                    /\ last'.resp.flash = AlreadyInitialized
                 \/ /\ AdminCount(users) = 0
                    /\ Len(users') = Len(users) + 1
                    /\ SubSeq(users', 1, Len(users)) = users
                    /\ users'[Len(users')].username = "admin"
                    /\ check_password(users'[Len(users')], last'.req.form.admin_password)
                    /\ last'.resp.flash = AdminCreated ]_vars

====
